---- MODULE Spec2Model ----
(***************************************************************************)
(* Dispatch core of discord-mcp: the action and query registries           *)
(* (ActionMappings.ts), parameter normalisation, argument positioning,     *)
(* execute / query / batch (UnifiedExecutor.ts) and the discord_batch      *)
(* tool handler (index-hybrid.ts).                                         *)
(*                                                                         *)
(* A JavaScript object is a sequence of <<key, value>> pairs with unique   *)
(* keys, in insertion order.  A JavaScript value is a record               *)
(* [t, s, n, m]: t is the type tag, s the text of a string / boolean /     *)
(* built-in function name, n the number, m the entries of an object or     *)
(* array.                                                                  *)
(***************************************************************************)
EXTENDS Integers, Sequences, FiniteSets, TLC

\* ------------------------------------------------------------------------
\* Bounds of the model
\* ------------------------------------------------------------------------
MaxBatch == 3

\* ------------------------------------------------------------------------
\* JavaScript values and objects
\* ------------------------------------------------------------------------
V(t, s, n, m) == [t |-> t, s |-> s, n |-> n, m |-> m]
Str(s) == V("str", s, 0, <<>>)
Num(n) == V("num", "", n, <<>>)
Bool(b) == V("bool", IF b THEN "true" ELSE "false", 0, <<>>)
Undef == V("undef", "", 0, <<>>)
Null == V("null", "", 0, <<>>)
Obj(m) == V("obj", "", 0, m)
Arr(m) == V("arr", "", 0, m)
Fn(name) == V("fn", name, 0, <<>>)

\* Object.keys(o)
Keys(o) == [i \in 1..Len(o) |-> o[i][1]]
KeySet(o) == {o[i][1] : i \in 1..Len(o)}
Has(o, k) == k \in KeySet(o)
Get(o, k) == o[CHOOSE i \in 1..Len(o) : o[i][1] = k][2]
\* o[k] = v : an existing key keeps its place, a new key goes last
Put(o, k, v) ==
  IF Has(o, k)
  THEN [i \in 1..Len(o) |-> IF o[i][1] = k THEN <<k, v>> ELSE o[i]]
  ELSE Append(o, <<k, v>>)
\* delete o[k]
RECURSIVE Del(_, _)
Del(o, k) ==
  IF o = <<>> THEN <<>>
  ELSE IF Head(o)[1] = k THEN Del(Tail(o), k)
  ELSE <<Head(o)>> \o Del(Tail(o), k)
\* Object.values(o)
Values(o) == [i \in 1..Len(o) |-> o[i][2]]

\* Properties every object literal inherits from Object.prototype
ProtoFunctions ==
  {"constructor", "toString", "valueOf", "hasOwnProperty", "isPrototypeOf",
   "propertyIsEnumerable", "toLocaleString"}

\* t[k] on an object literal t whose own values are strings
Lookup(t, k) ==
  IF Has(t, k) THEN Str(Get(t, k))
  ELSE IF k \in ProtoFunctions THEN Fn(k)
  ELSE IF k = "__proto__" THEN Obj(<<>>)
  ELSE Undef

\* params[k] on a caller-built parameter object
Prop(params, k) == IF Has(params, k) THEN Get(params, k) ELSE Undef

\* ToBoolean(v)
Truthy(v) ==
  CASE v.t = "str" -> v.s # ""
    [] v.t = "num" -> v.n # 0
    [] v.t = "bool" -> v.s = "true"
    [] v.t \in {"undef", "null"} -> FALSE
    [] OTHER -> TRUE

\* An object whose own toString and valueOf are not callable has no
\* primitive value: converting it to a property key throws a TypeError.
HasPrimitive(v) == ~(v.t = "obj" /\ Has(v.m, "toString") /\ Has(v.m, "valueOf"))

\* String(v), also the property key v turns into
RECURSIVE KeyString(_)
JoinFrom(m, i) ==
  LET RECURSIVE J(_)
      J(k) == IF k > Len(m) THEN ""
              ELSE (IF m[k][2].t \in {"undef", "null"} THEN "" ELSE KeyString(m[k][2]))
                   \o (IF k < Len(m) THEN "," ELSE "") \o J(k + 1)
  IN J(i)
KeyString(v) ==
  CASE v.t = "str" -> v.s
    [] v.t = "num" -> ToString(v.n)
    [] v.t = "bool" -> v.s
    [] v.t = "undef" -> "undefined"
    [] v.t = "null" -> "null"
    [] v.t = "obj" -> "[object Object]"
    [] v.t = "arr" -> JoinFrom(v.m, 1)
    [] v.t = "fn" -> "function " \o (IF v.s = "constructor" THEN "Object" ELSE v.s)
                     \o "() { [native code] }"

\* t[k] || k, used as a property key
AliasKey(t, k) == IF Truthy(Lookup(t, k)) THEN KeyString(Lookup(t, k)) ELSE k

\* ------------------------------------------------------------------------
\* ActionMappings.ts : the registries
\* ------------------------------------------------------------------------
OPERATION_MAPPINGS ==
  <<
    <<"message",
      [actions |-> <<
         <<"send", [method |-> "sendMessage", paramMap |-> <<<<"content", "message">>>>, transform |-> FALSE]>>,
         <<"edit", [method |-> "editMessage", paramMap |-> <<<<"content", "newMessage">>>>, transform |-> FALSE]>>,
         <<"delete", [method |-> "deleteMessage", paramMap |-> <<>>, transform |-> FALSE]>>,
         <<"bulk_delete", [method |-> "bulkDeleteMessages", paramMap |-> <<>>, transform |-> FALSE]>>,
         <<"pin", [method |-> "pinMessage", paramMap |-> <<>>, transform |-> FALSE]>>,
         <<"unpin", [method |-> "unpinMessage", paramMap |-> <<>>, transform |-> FALSE]>>,
         <<"react", [method |-> "addReaction", paramMap |-> <<>>, transform |-> FALSE]>>,
         <<"unreact", [method |-> "removeReaction", paramMap |-> <<>>, transform |-> FALSE]>>,
         <<"crosspost", [method |-> "crosspostMessage", paramMap |-> <<>>, transform |-> FALSE]>> >>,
       queryResource |-> "messages"]>>,
    <<"dm",
      [actions |-> <<
         <<"send", [method |-> "sendPrivateMessage", paramMap |-> <<<<"content", "message">>>>, transform |-> FALSE]>>,
         <<"edit", [method |-> "editPrivateMessage", paramMap |-> <<<<"content", "newMessage">>>>, transform |-> FALSE]>>,
         <<"delete", [method |-> "deletePrivateMessage", paramMap |-> <<>>, transform |-> FALSE]>>,
         <<"get_user_id", [method |-> "getUserIdByName", paramMap |-> <<>>, transform |-> FALSE]>> >>,
       queryResource |-> "dm_messages"]>>,
    <<"channel",
      [actions |-> <<
         <<"create", [method |-> "createChannel", paramMap |-> <<>>, transform |-> TRUE]>>,
         <<"edit", [method |-> "editChannelAdvanced", paramMap |-> <<>>, transform |-> FALSE]>>,
         <<"delete", [method |-> "deleteChannel", paramMap |-> <<>>, transform |-> FALSE]>>,
         <<"find", [method |-> "findChannel", paramMap |-> <<<<"name", "channelName">>>>, transform |-> FALSE]>>,
         <<"move", [method |-> "moveChannelToCategory", paramMap |-> <<>>, transform |-> FALSE]>>,
         <<"set_position", [method |-> "setChannelPosition", paramMap |-> <<>>, transform |-> FALSE]>>,
         <<"set_positions", [method |-> "setChannelPositions", paramMap |-> <<<<"positions", "channelPositions">>>>, transform |-> FALSE]>>,
         <<"set_private", [method |-> "setChannelPrivate", paramMap |-> <<>>, transform |-> FALSE]>>,
         <<"organize", [method |-> "organizeChannels", paramMap |-> <<>>, transform |-> FALSE]>> >>,
       queryResource |-> "channels"]>>,
    <<"category",
      [actions |-> <<
         <<"create", [method |-> "createCategory", paramMap |-> <<>>, transform |-> FALSE]>>,
         <<"delete", [method |-> "deleteCategory", paramMap |-> <<>>, transform |-> FALSE]>>,
         <<"find", [method |-> "findCategory", paramMap |-> <<<<"name", "categoryName">>>>, transform |-> FALSE]>>,
         <<"set_position", [method |-> "setCategoryPosition", paramMap |-> <<>>, transform |-> FALSE]>>,
         <<"set_private", [method |-> "setCategoryPrivate", paramMap |-> <<>>, transform |-> FALSE]>>,
         <<"list_channels", [method |-> "listChannelsInCategory", paramMap |-> <<>>, transform |-> FALSE]>> >>,
       queryResource |-> ""]>>,
    <<"role",
      [actions |-> <<
         <<"create", [method |-> "createRole", paramMap |-> <<>>, transform |-> FALSE]>>,
         <<"edit", [method |-> "editRole", paramMap |-> <<>>, transform |-> FALSE]>>,
         <<"delete", [method |-> "deleteRole", paramMap |-> <<>>, transform |-> FALSE]>>,
         <<"set_positions", [method |-> "setRolePositions", paramMap |-> <<<<"positions", "rolePositions">>>>, transform |-> FALSE]>>,
         <<"add_to_member", [method |-> "addRoleToMember", paramMap |-> <<>>, transform |-> FALSE]>>,
         <<"remove_from_member", [method |-> "removeRoleFromMember", paramMap |-> <<>>, transform |-> FALSE]>> >>,
       queryResource |-> "roles"]>>,
    <<"member",
      [actions |-> <<
         <<"edit", [method |-> "editMember", paramMap |-> <<>>, transform |-> FALSE]>>,
         <<"search", [method |-> "searchMembers", paramMap |-> <<>>, transform |-> FALSE]>> >>,
       queryResource |-> "members"]>>,
    <<"server",
      [actions |-> <<
         <<"edit", [method |-> "editServer", paramMap |-> <<>>, transform |-> FALSE]>>,
         <<"edit_welcome", [method |-> "editWelcomeScreen", paramMap |-> <<>>, transform |-> FALSE]>> >>,
       queryResource |-> "server"]>>,
    <<"voice",
      [actions |-> <<
         <<"join", [method |-> "joinVoiceChannel", paramMap |-> <<>>, transform |-> FALSE]>>,
         <<"leave", [method |-> "leaveVoiceChannel", paramMap |-> <<>>, transform |-> FALSE]>>,
         <<"play", [method |-> "playAudio", paramMap |-> <<<<"url", "audioUrl">>>>, transform |-> FALSE]>>,
         <<"stop", [method |-> "stopAudio", paramMap |-> <<>>, transform |-> FALSE]>>,
         <<"set_volume", [method |-> "setVolume", paramMap |-> <<>>, transform |-> FALSE]>> >>,
       queryResource |-> "voice_connections"]>>,
    <<"moderation",
      [actions |-> <<
         <<"create_automod", [method |-> "createAutomodRule", paramMap |-> <<>>, transform |-> FALSE]>>,
         <<"edit_automod", [method |-> "editAutomodRule", paramMap |-> <<>>, transform |-> FALSE]>>,
         <<"delete_automod", [method |-> "deleteAutomodRule", paramMap |-> <<>>, transform |-> FALSE]>>,
         <<"bulk_privacy", [method |-> "bulkSetPrivacy", paramMap |-> <<>>, transform |-> FALSE]>>,
         <<"comprehensive", [method |-> "comprehensiveChannelManagement", paramMap |-> <<>>, transform |-> FALSE]>> >>,
       queryResource |-> "automod_rules"]>>,
    <<"webhook",
      [actions |-> <<
         <<"create", [method |-> "createWebhook", paramMap |-> <<>>, transform |-> FALSE]>>,
         <<"delete", [method |-> "deleteWebhook", paramMap |-> <<>>, transform |-> FALSE]>>,
         <<"send", [method |-> "sendWebhookMessage", paramMap |-> <<<<"content", "message">>>>, transform |-> FALSE]>> >>,
       queryResource |-> "webhooks"]>>,
    <<"event",
      [actions |-> <<
         <<"create", [method |-> "createEvent", paramMap |-> <<>>, transform |-> FALSE]>>,
         <<"edit", [method |-> "editEvent", paramMap |-> <<>>, transform |-> FALSE]>>,
         <<"delete", [method |-> "deleteEvent", paramMap |-> <<>>, transform |-> FALSE]>> >>,
       queryResource |-> "events"]>>,
    <<"emoji",
      [actions |-> <<
         <<"create", [method |-> "createEmoji", paramMap |-> <<>>, transform |-> FALSE]>>,
         <<"delete", [method |-> "deleteEmoji", paramMap |-> <<>>, transform |-> FALSE]>> >>,
       queryResource |-> "emojis"]>>,
    <<"sticker",
      [actions |-> <<
         <<"create", [method |-> "createSticker", paramMap |-> <<>>, transform |-> FALSE]>>,
         <<"delete", [method |-> "deleteSticker", paramMap |-> <<>>, transform |-> FALSE]>> >>,
       queryResource |-> "stickers"]>>,
    <<"invite",
      [actions |-> <<
         <<"create", [method |-> "createInvite", paramMap |-> <<>>, transform |-> FALSE]>>,
         <<"delete", [method |-> "deleteInvite", paramMap |-> <<>>, transform |-> FALSE]>> >>,
       queryResource |-> "invites"]>>,
    <<"file",
      [actions |-> <<
         <<"upload", [method |-> "uploadFile", paramMap |-> <<>>, transform |-> FALSE]>>,
         <<"get_attachments", [method |-> "getMessageAttachments", paramMap |-> <<>>, transform |-> FALSE]>>,
         <<"read_images", [method |-> "readImages", paramMap |-> <<>>, transform |-> FALSE]>> >>,
       queryResource |-> ""]>>,
    <<"interactive",
      [actions |-> <<
         <<"send_embed", [method |-> "sendEmbed", paramMap |-> <<>>, transform |-> FALSE]>>,
         <<"send_button", [method |-> "sendButton", paramMap |-> <<>>, transform |-> FALSE]>>,
         <<"send_select_menu", [method |-> "sendSelectMenu", paramMap |-> <<>>, transform |-> FALSE]>>,
         <<"send_modal", [method |-> "sendModal", paramMap |-> <<>>, transform |-> FALSE]>> >>,
       queryResource |-> ""]>>,
    <<"analytics",
      [actions |-> <<
         <<"export_chat", [method |-> "exportChatLog", paramMap |-> <<>>, transform |-> FALSE]>>,
         <<"get_history", [method |-> "getMessageHistory", paramMap |-> <<>>, transform |-> FALSE]>> >>,
       queryResource |-> ""]>>
  >>

QUERY_MAPPINGS ==
  <<
    <<"messages", [method |-> "readMessages", paramMap |-> <<<<"limit", "count">>>>]>>,
    <<"pinned_messages", [method |-> "getPinnedMessages", paramMap |-> <<>>]>>,
    <<"message_history", [method |-> "getMessageHistory", paramMap |-> <<>>]>>,
    <<"attachments", [method |-> "getMessageAttachments", paramMap |-> <<>>]>>,
    <<"dm_messages", [method |-> "readPrivateMessages", paramMap |-> <<<<"limit", "count">>>>]>>,
    <<"channels", [method |-> "listChannels", paramMap |-> <<>>]>>,
    <<"channel_structure", [method |-> "getChannelStructure", paramMap |-> <<>>]>>,
    <<"category_channels", [method |-> "listChannelsInCategory", paramMap |-> <<>>]>>,
    <<"members", [method |-> "getMembers", paramMap |-> <<>>]>>,
    <<"member", [method |-> "getMemberInfo", paramMap |-> <<>>]>>,
    <<"roles", [method |-> "getRoles", paramMap |-> <<>>]>>,
    <<"server", [method |-> "getServerInfo", paramMap |-> <<>>]>>,
    <<"server_stats", [method |-> "getServerStats", paramMap |-> <<>>]>>,
    <<"server_widget", [method |-> "getServerWidget", paramMap |-> <<>>]>>,
    <<"welcome_screen", [method |-> "getWelcomeScreen", paramMap |-> <<>>]>>,
    <<"events", [method |-> "getEvents", paramMap |-> <<>>]>>,
    <<"invites", [method |-> "getInvites", paramMap |-> <<>>]>>,
    <<"webhooks", [method |-> "listWebhooks", paramMap |-> <<>>]>>,
    <<"emojis", [method |-> "getEmojis", paramMap |-> <<>>]>>,
    <<"stickers", [method |-> "getStickers", paramMap |-> <<>>]>>,
    <<"automod_rules", [method |-> "getAutomodRules", paramMap |-> <<>>]>>,
    <<"voice_connections", [method |-> "getVoiceConnections", paramMap |-> <<>>]>>
  >>

parameterOrders ==
  <<
    <<"sendMessage", <<"channelId", "message">>>>,
    <<"editMessage", <<"channelId", "messageId", "newMessage">>>>,
    <<"deleteMessage", <<"channelId", "messageId">>>>,
    <<"readMessages", <<"channelId", "count">>>>,
    <<"pinMessage", <<"channelId", "messageId">>>>,
    <<"unpinMessage", <<"channelId", "messageId">>>>,
    <<"getPinnedMessages", <<"channelId">>>>,
    <<"bulkDeleteMessages", <<"channelId", "messageIds", "filterOld">>>>,
    <<"crosspostMessage", <<"channelId", "messageId">>>>,
    <<"addReaction", <<"channelId", "messageId", "emoji">>>>,
    <<"removeReaction", <<"channelId", "messageId", "emoji">>>>,
    <<"getUserIdByName", <<"username", "guildId">>>>,
    <<"sendPrivateMessage", <<"userId", "message">>>>,
    <<"editPrivateMessage", <<"userId", "messageId", "newMessage">>>>,
    <<"deletePrivateMessage", <<"userId", "messageId">>>>,
    <<"readPrivateMessages", <<"userId", "count">>>>,
    <<"createTextChannel", <<"guildId", "name", "categoryId">>>>,
    <<"createVoiceChannel", <<"guildId", "name", "categoryId", "userLimit", "bitrate">>>>,
    <<"createForumChannel", <<"guildId", "name", "categoryId", "options">>>>,
    <<"createAnnouncementChannel", <<"guildId", "name", "categoryId", "options">>>>,
    <<"createStageChannel", <<"guildId", "name", "categoryId", "options">>>>,
    <<"editChannelAdvanced", <<"guildId", "channelId", "options">>>>,
    <<"deleteChannel", <<"guildId", "channelId">>>>,
    <<"findChannel", <<"guildId", "channelName">>>>,
    <<"listChannels", <<"guildId">>>>,
    <<"setChannelPosition", <<"guildId", "channelId", "position">>>>,
    <<"setChannelPositions", <<"guildId", "channelPositions">>>>,
    <<"moveChannelToCategory", <<"guildId", "channelId", "categoryId">>>>,
    <<"organizeChannels", <<"guildId", "organization">>>>,
    <<"getChannelStructure", <<"guildId">>>>,
    <<"createCategory", <<"guildId", "name">>>>,
    <<"deleteCategory", <<"guildId", "categoryId">>>>,
    <<"findCategory", <<"guildId", "categoryName">>>>,
    <<"listChannelsInCategory", <<"guildId", "categoryId">>>>,
    <<"setCategoryPosition", <<"guildId", "categoryId", "position">>>>,
    <<"setChannelPrivate", <<"guildId", "channelId", "options">>>>,
    <<"setCategoryPrivate", <<"guildId", "categoryId", "options">>>>,
    <<"bulkSetPrivacy", <<"guildId", "targets">>>>,
    <<"comprehensiveChannelManagement", <<"guildId", "operations">>>>,
    <<"createRole", <<"guildId", "name", "color", "permissions">>>>,
    <<"deleteRole", <<"guildId", "roleId">>>>,
    <<"editRole", <<"guildId", "roleId", "name", "color", "permissions">>>>,
    <<"addRoleToMember", <<"guildId", "userId", "roleId">>>>,
    <<"removeRoleFromMember", <<"guildId", "userId", "roleId">>>>,
    <<"getRoles", <<"guildId">>>>,
    <<"setRolePositions", <<"guildId", "rolePositions">>>>,
    <<"getMembers", <<"guildId", "limit", "after">>>>,
    <<"searchMembers", <<"guildId", "query", "limit">>>>,
    <<"editMember", <<"guildId", "userId", "nickname", "roles">>>>,
    <<"getMemberInfo", <<"guildId", "userId">>>>,
    <<"joinVoiceChannel", <<"guildId", "channelId">>>>,
    <<"leaveVoiceChannel", <<"guildId", "channelId">>>>,
    <<"playAudio", <<"guildId", "audioUrl">>>>,
    <<"stopAudio", <<"guildId">>>>,
    <<"setVolume", <<"guildId", "volume">>>>,
    <<"getVoiceConnections", <<>>>>,
    <<"createEvent", <<"guildId", "name", "description", "startTime", "endTime", "location", "channelId">>>>,
    <<"editEvent", <<"guildId", "eventId", "name", "description", "startTime", "endTime", "location">>>>,
    <<"deleteEvent", <<"guildId", "eventId">>>>,
    <<"getEvents", <<"guildId">>>>,
    <<"createInvite", <<"channelId", "maxAge", "maxUses", "temporary">>>>,
    <<"deleteInvite", <<"inviteCode">>>>,
    <<"getInvites", <<"guildId">>>>,
    <<"createWebhook", <<"channelId", "name">>>>,
    <<"deleteWebhook", <<"webhookId">>>>,
    <<"listWebhooks", <<"channelId">>>>,
    <<"sendWebhookMessage", <<"webhookUrl", "message">>>>,
    <<"createEmoji", <<"guildId", "name", "imageUrl", "roles">>>>,
    <<"deleteEmoji", <<"guildId", "emojiId">>>>,
    <<"getEmojis", <<"guildId">>>>,
    <<"createSticker", <<"guildId", "name", "description", "tags", "imageUrl">>>>,
    <<"deleteSticker", <<"guildId", "stickerId">>>>,
    <<"getStickers", <<"guildId">>>>,
    <<"uploadFile", <<"channelId", "filePath", "fileName", "content">>>>,
    <<"getMessageAttachments", <<"channelId", "messageId">>>>,
    <<"readImages", <<"channelId", "messageId", "limit", "includeMetadata", "downloadImages">>>>,
    <<"createAutomodRule", <<"guildId", "name", "eventType", "triggerType", "keywordFilter", "presets", "allowList", "mentionLimit", "enabled">>>>,
    <<"editAutomodRule", <<"guildId", "ruleId", "name", "enabled", "keywordFilter", "allowList", "mentionLimit">>>>,
    <<"deleteAutomodRule", <<"guildId", "ruleId">>>>,
    <<"getAutomodRules", <<"guildId">>>>,
    <<"getServerInfo", <<"guildId">>>>,
    <<"editServer", <<"guildId", "name", "description", "icon", "banner", "verificationLevel">>>>,
    <<"getServerStats", <<"guildId">>>>,
    <<"getServerWidget", <<"guildId">>>>,
    <<"getWelcomeScreen", <<"guildId">>>>,
    <<"editWelcomeScreen", <<"guildId", "enabled", "description", "welcomeChannels">>>>,
    <<"sendEmbed", <<"channelId", "title", "description", "color", "fields", "footer", "image", "thumbnail">>>>,
    <<"sendButton", <<"channelId", "content", "buttons">>>>,
    <<"sendSelectMenu", <<"channelId", "content", "customId", "placeholder", "minValues", "maxValues", "options">>>>,
    <<"sendModal", <<"interactionId", "title", "customId", "components">>>>,
    <<"getMessageHistory", <<"channelId", "limit", "before", "after">>>>,
    <<"exportChatLog", <<"channelId", "format", "limit", "dateRange">>>>
  >>

getValidOperations == Keys(OPERATION_MAPPINGS)

\* faulty variant: the actions of the first category, whatever the category
getValidActions_First(operation) == Keys(OPERATION_MAPPINGS[1][2].actions)

getValidActions(operation) ==
  IF Has(OPERATION_MAPPINGS, operation)
  THEN Keys(Get(OPERATION_MAPPINGS, operation).actions)
  ELSE <<>>

getValidQueryResources == Keys(QUERY_MAPPINGS)

\* Array.prototype.includes on a list of strings
Includes(list, x) == \E i \in 1..Len(list) : list[i] = x

\* the transform of channel.create
methodMap ==
  << <<"text", "createTextChannel">>, <<"voice", "createVoiceChannel">>,
     <<"forum", "createForumChannel">>,
     <<"announcement", "createAnnouncementChannel">>,
     <<"stage", "createStageChannel">>, <<"category", "createCategory">> >>

TransformThrows(params) ==
  Truthy(Prop(params, "type")) /\ ~HasPrimitive(Prop(params, "type"))

transform(params) ==
  LET type == IF Truthy(Prop(params, "type")) THEN Prop(params, "type") ELSE Str("text")
      hit == Lookup(methodMap, KeyString(type))
  IN Put(params, "_method", IF Truthy(hit) THEN hit ELSE Str("createTextChannel"))

\* for (const [newKey, value] of Object.entries(p)) mapped[paramMap[newKey] || newKey] = value
RECURSIVE ApplyParamMap(_, _, _)
ApplyParamMap(paramMap, p, acc) ==
  IF p = <<>> THEN acc
  ELSE ApplyParamMap(paramMap, Tail(p),
                     Put(acc, AliasKey(paramMap, Head(p)[1]), Head(p)[2]))

\* t[k] is an inherited property of the object literal t, not an own one
Inherited(t, k) == ~Has(t, k) /\ k \in ProtoFunctions \cup {"__proto__"}

\* resolveAction: [found, throws, method (a value), params]
resolveAction(operation, action, params) ==
  IF Inherited(OPERATION_MAPPINGS, operation)
  THEN \* config.actions is undefined: config.actions[action] throws
       [found |-> FALSE, throws |-> TRUE, method |-> Undef, params |-> <<>>]
  ELSE IF ~Has(OPERATION_MAPPINGS, operation)
  THEN [found |-> FALSE, throws |-> FALSE, method |-> Undef, params |-> <<>>]
  ELSE
  LET config == Get(OPERATION_MAPPINGS, operation) IN
  IF Inherited(config.actions, action)
  THEN \* an inherited property is truthy and has no method, transform, paramMap
       LET dynamic == Truthy(Prop(params, "_method"))
       IN [found |-> TRUE, throws |-> FALSE,
           method |-> IF dynamic THEN Prop(params, "_method") ELSE Undef,
           params |-> IF dynamic THEN Del(params, "_method") ELSE params]
  ELSE IF ~Has(config.actions, action)
  THEN [found |-> FALSE, throws |-> FALSE, method |-> Undef, params |-> <<>>]
  ELSE
  LET actionConfig == Get(config.actions, action) IN
  IF actionConfig.transform /\ TransformThrows(params)
  THEN [found |-> FALSE, throws |-> TRUE, method |-> Undef, params |-> <<>>]
  ELSE
  LET transformed == IF actionConfig.transform THEN transform(params) ELSE params
      dynamic == Truthy(Prop(transformed, "_method"))
      method == IF dynamic THEN Prop(transformed, "_method") ELSE Str(actionConfig.method)
      stripped == IF dynamic THEN Del(transformed, "_method") ELSE transformed
      mapped == IF actionConfig.paramMap # <<>>
                THEN ApplyParamMap(actionConfig.paramMap, stripped, <<>>)
                ELSE stripped
  IN [found |-> TRUE, throws |-> FALSE, method |-> method, params |-> mapped]

\* the mapping the caller handed to resolveAction, after the call: without a
\* transform transformedParams is the caller's own object, and
\* delete transformedParams._method removes the key from it
ParamsAfterResolveAction(operation, action, params) ==
  IF ~Has(OPERATION_MAPPINGS, operation) THEN params
  ELSE
  LET config == Get(OPERATION_MAPPINGS, operation) IN
  IF Inherited(config.actions, action)
  THEN (IF Truthy(Prop(params, "_method")) THEN Del(params, "_method") ELSE params)
  ELSE IF ~Has(config.actions, action) THEN params
  ELSE IF Get(config.actions, action).transform THEN params
  ELSE IF Truthy(Prop(params, "_method")) THEN Del(params, "_method")
  ELSE params

\* faulty variant: resolveQuery with the dynamic method selection of
\* resolveAction
resolveQuery_Dynamic(resource, filters) ==
  IF ~Has(QUERY_MAPPINGS, resource)
  THEN [found |-> FALSE, method |-> Undef, params |-> <<>>]
  ELSE
  LET config == Get(QUERY_MAPPINGS, resource)
      dynamic == Truthy(Prop(filters, "_method"))
      stripped == IF dynamic THEN Del(filters, "_method") ELSE filters
  IN [found |-> TRUE,
      method |-> IF dynamic THEN Prop(filters, "_method") ELSE Str(config.method),
      params |-> IF config.paramMap # <<>>
                 THEN ApplyParamMap(config.paramMap, stripped, <<>>)
                 ELSE stripped]

\* the mapping the caller handed to resolveQuery, after the call: the
\* function works on the copy { ...filters } and writes to nothing else
FiltersAfterResolveQuery(resource, filters) == filters

\* resolveQuery: [found, method, params]
resolveQuery(resource, filters) ==
  IF Inherited(QUERY_MAPPINGS, resource)
  THEN \* an inherited property is truthy and has no method, paramMap
       [found |-> TRUE, method |-> Undef, params |-> filters]
  ELSE IF ~Has(QUERY_MAPPINGS, resource)
  THEN [found |-> FALSE, method |-> Undef, params |-> <<>>]
  ELSE
  LET config == Get(QUERY_MAPPINGS, resource)
      mapped == IF config.paramMap # <<>>
                THEN ApplyParamMap(config.paramMap, filters, <<>>)
                ELSE filters
  IN [found |-> TRUE, method |-> Str(config.method), params |-> mapped]

\* ------------------------------------------------------------------------
\* UnifiedExecutor.ts : normalisation and positioning
\* ------------------------------------------------------------------------
\* faulty variant: position is not converted
STRING_PARAMS_NoPosition == <<"count", "limit", "volume">>

STRING_PARAMS == <<"count", "limit", "position", "volume">>

\* faulty variant: the alias table without the text entry
PARAM_ALIASES_NoText ==
  << <<"limit", "count">>, <<"content", "message">> >>

\* faulty variant: an alias whose target is itself an alias
PARAM_ALIASES_Chained ==
  << <<"limit", "content">>, <<"content", "message">>, <<"text", "message">> >>

PARAM_ALIASES ==
  << <<"limit", "count">>, <<"content", "message">>, <<"text", "message">> >>

RECURSIVE NormalizeInto(_, _)
NormalizeInto(p, acc) ==
  IF p = <<>> THEN acc
  ELSE LET key == Head(p)[1]
           value == Head(p)[2]
           actualKey == AliasKey(PARAM_ALIASES, key)
       IN NormalizeInto(Tail(p),
            Put(acc, actualKey,
                IF Includes(STRING_PARAMS, actualKey) /\ value.t = "num"
                THEN Str(ToString(value.n))
                ELSE value))

normalizeParams(params) == NormalizeInto(params, <<>>)

optionKeys ==
  <<"topic", "slowmode", "userLimit", "bitrate", "isPrivate", "allowedRoles",
    "allowedMembers", "syncToCategory", "applyToChannels", "categoryId",
    "defaultReactionEmoji", "nsfw", "rateLimitPerUser">>

\* faulty variant: only truthy values are packed
RECURSIVE PackOptions_Truthy(_, _, _)
PackOptions_Truthy(params, i, options) ==
  IF i > Len(optionKeys) THEN options
  ELSE PackOptions_Truthy(params, i + 1,
         IF Truthy(Prop(params, optionKeys[i]))
         THEN Put(options, optionKeys[i], Prop(params, optionKeys[i]))
         ELSE options)

RECURSIVE PackOptions(_, _, _)
PackOptions(params, i, options) ==
  IF i > Len(optionKeys) THEN options
  ELSE PackOptions(params, i + 1,
         IF Prop(params, optionKeys[i]) # Undef
         THEN Put(options, optionKeys[i], Prop(params, optionKeys[i]))
         ELSE options)

\* faulty variant: every method gets the values in insertion order
extractParamValues_Values(methodName, params) ==
  [throws |-> FALSE, fallback |-> FALSE, args |-> Values(params)]

\* extractParamValues: [throws, fallback, args]
extractParamValues(methodName, params) ==
  IF Has(parameterOrders, methodName)
  THEN LET order == Get(parameterOrders, methodName)
           options == PackOptions(params, 1, <<>>)
       IN [throws |-> FALSE, fallback |-> FALSE,
           args |-> IF Includes(order, "options")
                    THEN [i \in 1..Len(order) |->
                            IF order[i] = "options"
                            THEN (IF Len(options) > 0 THEN Obj(options) ELSE Undef)
                            ELSE Prop(params, order[i])]
                    ELSE [i \in 1..Len(order) |-> Prop(params, order[i])]]
  ELSE IF methodName \in ProtoFunctions \cup {"__proto__"}
  THEN [throws |-> TRUE, fallback |-> FALSE, args |-> <<>>]
  ELSE [throws |-> FALSE, fallback |-> TRUE, args |-> Values(params)]

\* ------------------------------------------------------------------------
\* Results
\* ------------------------------------------------------------------------
Err(kind, subject, valid, msg) ==
  [kind |-> kind, subject |-> subject, valid |-> valid, msg |-> msg]
NoError == Err("none", "", <<>>, "")

Success(data) ==
  [success |-> TRUE, fields |-> {"success", "data"}, data |-> data, error |-> NoError]

\* faulty variant: the failure result carries a data field as well
Failure_WithData(err) ==
  [success |-> FALSE, fields |-> {"success", "data", "error"}, data |-> Undef,
   error |-> err]

Failure(err) ==
  [success |-> FALSE, fields |-> {"success", "error"}, data |-> Undef, error |-> err]

NoResult ==
  [success |-> FALSE, fields |-> {}, data |-> Undef, error |-> NoError]

\* what the synchronous part of a call ends in: a result, a throw that
\* leaves the call, or an invocation of the underlying operation
Settled(result) ==
  [tag |-> "result", result |-> result, method |-> "", args |-> <<>>, fallback |-> FALSE]
Thrown ==
  [tag |-> "throw", result |-> NoResult, method |-> "", args |-> <<>>, fallback |-> FALSE]
Invoke(method, args, fallback) ==
  [tag |-> "invoke", result |-> NoResult, method |-> method, args |-> args,
   fallback |-> fallback]

\* typeof automationManager[name] === 'function'
ManagerHas(mgr, name) == name \in mgr \/ name \in ProtoFunctions

\* callMethod up to the call of the underlying operation; every throw in
\* it is inside the try block of execute / query
callMethod(mgr, methodName, params) ==
  IF ~HasPrimitive(methodName)
  THEN Settled(Failure(Err("TypeError", "", <<>>, "Cannot convert object to primitive value")))
  ELSE
  LET name == KeyString(methodName) IN
  IF ~ManagerHas(mgr, name)
  THEN Settled(Failure(Err("MethodNotFound", name, <<>>, "not found in AutomationManager")))
  ELSE
  LET x == extractParamValues(name, params) IN
  IF x.throws
  THEN Settled(Failure(Err("TypeError", name, <<>>, "order.includes is not a function")))
  ELSE Invoke(name, x.args, x.fallback)

\* actionParams || {}
ParamsOrEmpty(v) == IF Truthy(v) THEN v.m ELSE <<>>

\* faulty variant: execute that does not validate the action
ExecuteSync_NoActionCheck(mgr, req) ==
  IF ~Includes(getValidOperations, req.operation)
  THEN Settled(Failure(Err("InvalidOperation", req.operation, getValidOperations, "")))
  ELSE
  LET normalizedParams == normalizeParams(ParamsOrEmpty(req.params))
      resolved == resolveAction(req.operation, req.action, normalizedParams)
  IN IF resolved.throws THEN Thrown
     ELSE IF ~resolved.found
     THEN Settled(Failure(Err("ResolveFailed", req.action, <<>>, req.operation)))
     ELSE callMethod(mgr, resolved.method, resolved.params)

\* execute up to its await
ExecuteSync(mgr, req) ==
  IF ~Includes(getValidOperations, req.operation)
  THEN Settled(Failure(Err("InvalidOperation", req.operation, getValidOperations, "")))
  ELSE IF ~Includes(getValidActions(req.operation), req.action)
  THEN Settled(Failure(Err("InvalidAction", req.action,
                           getValidActions(req.operation), req.operation)))
  ELSE
  LET normalizedParams == normalizeParams(ParamsOrEmpty(req.params))
      resolved == resolveAction(req.operation, req.action, normalizedParams)
  IN IF resolved.throws THEN Thrown
     ELSE IF ~resolved.found
     THEN Settled(Failure(Err("ResolveFailed", req.action, <<>>, req.operation)))
     ELSE callMethod(mgr, resolved.method, resolved.params)

\* const queryFilters = { ...filters }; if (limit !== undefined)
\* queryFilters.limit = limit; then normalizeParams(queryFilters)
normalizedFilters(q) ==
  LET filters == IF q.filters.t = "obj" THEN q.filters.m ELSE <<>>
      queryFilters == IF q.limit # Undef THEN Put(filters, "limit", q.limit) ELSE filters
  IN normalizeParams(queryFilters)

\* query up to its await
QuerySync(mgr, q) ==
  IF ~Includes(getValidQueryResources, q.resource)
  THEN Settled(Failure(Err("InvalidResource", q.resource, getValidQueryResources, "")))
  ELSE
  LET resolved == resolveQuery(q.resource, normalizedFilters(q))
  IN IF ~resolved.found
     THEN Settled(Failure(Err("ResolveFailed", q.resource, <<>>, "")))
     ELSE callMethod(mgr, resolved.method, resolved.params)

\* error instanceof Error ? error.message : String(error)
CaughtMessage(thrown) == IF thrown.isError THEN thrown.v.s ELSE KeyString(thrown.v)

\* ------------------------------------------------------------------------
\* Inputs
\* ------------------------------------------------------------------------
Calls == {"c1"}

ChannelIds == {Str("123"), Str("456")}
Bodies == {Str("hi"), Num(7)}
BodyKeys == {"content", "text", "message"}
Limits == {Undef, Num(100), Num(5)}
Payloads == {Str("ok")}
Throwables == {[isError |-> TRUE, v |-> Str("Missing Permissions")],
               [isError |-> FALSE, v |-> Str("timeout")]}

\* the method names of the AutomationManager instance handed to the
\* constructor: the ones the positioner knows, one of them missing, or one
\* more that the positioner does not know
Managers ==
  {KeySet(parameterOrders),
   KeySet(parameterOrders) \ {"pinMessage"},
   KeySet(parameterOrders) \cup {"destroy"}}

Req(operation, action, params) ==
  [operation |-> operation, action |-> action, params |-> params]
NoReq == Req("", "", Undef)

SendRequests ==
  {Req("message", "send", Obj(<< <<"channelId", c>>, <<k, m>> >>)) :
     c \in ChannelIds, k \in BodyKeys, m \in Bodies}

EditRequests ==
  {Req("message", "edit",
       Obj(<< <<"channelId", Str("123")>>, <<"messageId", Str("9")>>, <<"content", m>> >>)) :
     m \in Bodies}
  \cup
  {Req("dm", "edit",
       Obj(<< <<"userId", Str("42")>>, <<"messageId", Str("9")>>, <<"content", m>> >>)) :
     m \in Bodies}

InvalidRequests ==
  {Req("bogus", "send", Obj(<< <<"channelId", Str("123")>> >>)),
   Req("constructor", "send", Obj(<<>>)),
   Req("message", "bogus", Obj(<< <<"channelId", Str("123")>> >>)),
   Req("message", "constructor", Obj(<<>>)),
   Req("category", "edit", Obj(<<>>))}

OtherRequests ==
  {Req("message", "pin", Obj(<< <<"channelId", Str("123")>>, <<"messageId", Str("9")>> >>)),
   Req("message", "pin", Undef),
   Req("message", "delete", Obj(<< <<"channelId", Str("123")>>, <<"_method", Str("destroy")>> >>)),
   Req("message", "delete", Obj(<< <<"_method", Str("toString")>> >>)),
   Req("channel", "create", Obj(<< <<"guildId", Str("1")>>, <<"name", Str("n")>> >>)),
   Req("channel", "create", Obj(<< <<"name", Str("n")>>, <<"type", Str("voice")>> >>)),
   Req("channel", "create", Obj(<< <<"name", Str("n")>>, <<"type", Str("constructor")>> >>)),
   Req("channel", "create", Obj(<< <<"name", Str("n")>>, <<"type", Str("bogus")>> >>)),
   Req("channel", "create",
       Obj(<< <<"name", Str("n")>>, <<"type", Str("forum")>>, <<"_method", Str("destroy")>> >>)),
   Req("channel", "create",
       Obj(<< <<"type", Obj(<< <<"toString", Num(1)>>, <<"valueOf", Num(1)>> >>)>> >>))}

\* README.md, table "Available Operations"
README_OPERATIONS ==
  <<
    <<"message", <<"send", "edit", "delete", "bulk_delete", "pin", "unpin", "react", "unreact", "crosspost">>>>,
    <<"dm", <<"send", "edit", "delete">>>>,
    <<"channel", <<"create", "edit", "delete", "move", "set_position", "set_positions", "set_private">>>>,
    <<"category", <<"create", "edit", "delete", "set_position">>>>,
    <<"role", <<"create", "edit", "delete", "set_positions", "add_to_member", "remove_from_member">>>>,
    <<"member", <<"edit", "search">>>>,
    <<"server", <<"edit", "get_info", "get_stats">>>>,
    <<"voice", <<"join", "leave", "play", "stop", "set_volume">>>>,
    <<"moderation", <<"create_rule", "edit_rule", "delete_rule">>>>,
    <<"webhook", <<"create", "delete", "send">>>>,
    <<"event", <<"create", "edit", "delete">>>>,
    <<"emoji", <<"create", "delete">>>>,
    <<"sticker", <<"create", "delete">>>>,
    <<"invite", <<"create", "delete">>>>,
    <<"file", <<"upload">>>>,
    <<"interactive", <<"send_embed", "send_button", "send_select_menu">>>>,
    <<"analytics", <<"export_chat">>>>
  >>

\* CORE_TOOLS: the enum of the operation property of discord_execute
OperationEnum ==
  <<"message", "dm", "channel", "category", "role", "member", "server",
    "voice", "moderation", "webhook", "event", "emoji", "sticker", "invite",
    "file", "interactive", "analytics">>

\* CORE_TOOLS: the enum of the resource property of discord_query
ResourceEnum ==
  <<"messages", "pinned_messages", "message_history", "attachments",
    "dm_messages", "channels", "channel_structure", "category_channels",
    "members", "member", "roles", "server", "server_stats", "server_widget",
    "welcome_screen", "events", "invites", "webhooks", "emojis", "stickers",
    "automod_rules", "voice_connections">>

\* OPERATION_HELP: for each operation the action names it documents
OPERATION_HELP ==
  <<
    <<"message", <<"send", "edit", "delete", "bulk_delete", "pin", "unpin", "react", "unreact", "crosspost">>>>,
    <<"dm", <<"send", "edit", "delete", "get_user_id">>>>,
    <<"channel", <<"create", "edit", "delete", "find", "move", "set_position", "set_positions", "set_private", "organize">>>>,
    <<"category", <<"create", "delete", "find", "set_position", "set_private", "list_channels">>>>,
    <<"role", <<"create", "edit", "delete", "set_positions", "add_to_member", "remove_from_member">>>>,
    <<"member", <<"edit", "search">>>>,
    <<"server", <<"edit", "edit_welcome">>>>,
    <<"voice", <<"join", "leave", "play", "stop", "set_volume">>>>,
    <<"moderation", <<"create_automod", "edit_automod", "delete_automod", "bulk_privacy", "comprehensive">>>>,
    <<"webhook", <<"create", "delete", "send">>>>,
    <<"event", <<"create", "edit", "delete">>>>,
    <<"emoji", <<"create", "delete">>>>,
    <<"sticker", <<"create", "delete">>>>,
    <<"invite", <<"create", "delete">>>>,
    <<"file", <<"upload", "get_attachments", "read_images">>>>,
    <<"interactive", <<"send_embed", "send_button", "send_select_menu", "send_modal">>>>,
    <<"analytics", <<"export_chat", "get_history">>>>
  >>

\* getOperationHelp(operation): the action names of the help text, none for
\* an operation that OPERATION_HELP does not have
getOperationHelp(operation) ==
  IF Has(OPERATION_HELP, operation) THEN Get(OPERATION_HELP, operation) ELSE <<>>

ReadmePairs ==
  UNION {{<<README_OPERATIONS[i][1], README_OPERATIONS[i][2][j]>> :
            j \in 1..Len(README_OPERATIONS[i][2])} : i \in 1..Len(README_OPERATIONS)}

ReadmeRequests == {Req(pair[1], pair[2], Obj(<<>>)) : pair \in ReadmePairs}

SelectMenuRequests ==
  {Req("interactive", "send_select_menu",
       Obj(<< <<"channelId", Str("123")>>, <<"content", Str("pick")>>,
              <<"customId", Str("menu")>>,
              <<"options", Arr(<< <<"0", Str("red")>>, <<"1", Str("blue")>> >>)>> >>))}

\* the registered (operation, action) pairs
RegisteredPairs ==
  UNION {{<<getValidOperations[i], a>> :
            a \in KeySet(Get(OPERATION_MAPPINGS, getValidOperations[i]).actions)} :
         i \in 1..Len(getValidOperations)}

\* every registered pair, without parameters
RegisteredRequests == {Req(pair[1], pair[2], Obj(<<>>)) : pair \in RegisteredPairs}

ExecRequests ==
  SendRequests \cup EditRequests \cup InvalidRequests \cup OtherRequests
  \cup SelectMenuRequests \cup ReadmeRequests \cup RegisteredRequests

QueryReq(resource, filters, limit) ==
  [resource |-> resource, filters |-> filters, limit |-> limit]
NoQuery == QueryReq("", Undef, Undef)

QueryRequests ==
  {QueryReq("messages", Obj(<< <<"channelId", Str("123")>> >>), l) : l \in Limits}
  \cup {QueryReq("dm_messages", Obj(<< <<"userId", Str("42")>> >>), l) : l \in Limits}
  \cup {QueryReq("members", Obj(<< <<"guildId", Str("1")>> >>), l) : l \in Limits}
  \cup {QueryReq("message_history", Obj(<< <<"channelId", Str("123")>> >>), l) : l \in Limits}
  \cup {QueryReq("roles", Undef, Undef), QueryReq("bogus", Undef, Num(5)),
        QueryReq("toString", Obj(<<>>), Undef)}
  \cup {QueryReq(resource, Undef, Undef) : resource \in KeySet(QUERY_MAPPINGS)}

\* an entry of the operations array of a batch; null marks a null entry
Item(operation, action, params) ==
  [null |-> FALSE, operation |-> operation, action |-> action, params |-> params]
NullItem == [null |-> TRUE, operation |-> "", action |-> "", params |-> Undef]

BatchItems ==
  {Item("message", "send", Obj(<< <<"channelId", Str("123")>>, <<"content", Str("hi")>> >>)),
   Item("message", "pin", Obj(<< <<"channelId", Str("123")>>, <<"messageId", Str("9")>> >>)),
   Item("message", "bogus", Obj(<<>>)),
   NullItem}

RECURSIVE SeqsUpTo(_, _)
SeqsUpTo(S, n) ==
  IF n = 0 THEN {<<>>}
  ELSE LET shorter == SeqsUpTo(S, n - 1)
       IN shorter \cup {Append(s, x) : s \in {t \in shorter : Len(t) = n - 1}, x \in S}

StopArgs == {"true", "false", "omitted", "null"}

BatchRequests ==
  [operations : SeqsUpTo(BatchItems, MaxBatch), stopOnError : StopArgs, viaTool : BOOLEAN]

\* ------------------------------------------------------------------------
\* State
\* ------------------------------------------------------------------------
VARIABLES manager, calls, pure
vars == <<manager, calls, pure>>

\* a direct call of one of the pure functions of the core: its argument,
\* the mapping it returns (out), the mapping a second application returns
\* (again) and the positional arguments it returns (args)
NoPure ==
  [fn |-> "none", stage |-> 0, name |-> "", action |-> "", arg |-> <<>>,
   out |-> <<>>, again |-> <<>>, args |-> <<>>, fallback |-> FALSE,
   found |-> FALSE, method |-> Undef, left |-> <<>>, limit |-> Undef]

NoBatchResult ==
  [returned |-> FALSE, success |-> FALSE, results |-> <<>>,
   completedCount |-> 0, failedCount |-> 0]

Idle ==
  [kind |-> "idle", pc |-> "idle", req |-> NoReq, qreq |-> NoQuery,
   ops |-> <<>>, stopArg |-> "omitted", viaTool |-> FALSE, stopOnError |-> TRUE,
   idx |-> 0,
   results |-> <<>>, completedCount |-> 0, failedCount |-> 0,
   cur |-> NoResult, ret |-> NoResult, bret |-> NoBatchResult, log |-> <<>>]

Init ==
  /\ manager \in Managers
  /\ calls = [c \in Calls |-> Idle]
  /\ pure = NoPure

\* the call after the synchronous part o of an execute or query
After(rec, o) ==
  CASE o.tag = "result" -> [rec EXCEPT !.pc = "settled", !.cur = o.result]
    [] o.tag = "throw" -> [rec EXCEPT !.pc = "raised"]
    [] o.tag = "invoke" ->
         [rec EXCEPT !.pc = "await",
                     !.log = Append(@, [idx |-> rec.idx, method |-> o.method,
                                        args |-> o.args, fallback |-> o.fallback,
                                        status |-> "pending"])]

\* faulty variant: the executor keeps the request of the call in progress in
\* a field, so a call that starts while another execute awaits runs the
\* other call's request
Execute_SharedRequest(c, r) ==
  /\ calls[c].pc = "idle"
  /\ LET others == {d \in DOMAIN calls :
                      d # c /\ calls[d].kind = "execute" /\ calls[d].pc = "await"}
         used == IF others = {} THEN r ELSE calls[CHOOSE d \in others : TRUE].req
     IN calls' = [calls EXCEPT ![c] =
          After([Idle EXCEPT !.kind = "execute", !.req = r, !.idx = 1],
                ExecuteSync(manager, used))]
  /\ UNCHANGED <<manager, pure>>

\* execute(params), up to its first await
Execute(c, r) ==
  /\ calls[c].pc = "idle"
  /\ calls' = [calls EXCEPT ![c] =
       After([Idle EXCEPT !.kind = "execute", !.req = r, !.idx = 1],
             ExecuteSync(manager, r))]
  /\ UNCHANGED <<manager, pure>>

\* query(params), up to its first await
Query(c, q) ==
  /\ calls[c].pc = "idle"
  /\ calls' = [calls EXCEPT ![c] =
       After([Idle EXCEPT !.kind = "query", !.qreq = q, !.idx = 1],
             QuerySync(manager, q))]
  /\ UNCHANGED <<manager, pure>>

\* the underlying operation resolves
Returns(c, data) ==
  /\ calls[c].pc = "await"
  /\ calls' = [calls EXCEPT ![c].pc = "settled",
                            ![c].cur = Success(data),
                            ![c].log[Len(calls[c].log)].status = "returned"]
  /\ UNCHANGED <<manager, pure>>

\* the underlying operation rejects; the catch block of execute / query
Raises(c, thrown) ==
  /\ calls[c].pc = "await"
  /\ calls' = [calls EXCEPT ![c].pc = "settled",
                            ![c].cur = Failure(Err("Underlying",
                                 calls[c].log[Len(calls[c].log)].method, <<>>,
                                 CaughtMessage(thrown))),
                            ![c].log[Len(calls[c].log)].status = "raised"]
  /\ UNCHANGED <<manager, pure>>

\* the promise of execute resolves to its result
ExecuteResume(c) ==
  /\ calls[c].kind = "execute" /\ calls[c].pc = "settled"
  /\ calls' = [calls EXCEPT ![c].pc = "done", ![c].ret = calls[c].cur]
  /\ UNCHANGED <<manager, pure>>

QueryResume(c) ==
  /\ calls[c].kind = "query" /\ calls[c].pc = "settled"
  /\ calls' = [calls EXCEPT ![c].pc = "done", ![c].ret = calls[c].cur]
  /\ UNCHANGED <<manager, pure>>

\* { operation: op.operation, action: op.action, params: op.params }
ItemReq(op) == Req(op.operation, op.action, op.params)

\* faulty variant: success means that some operation completed
BatchReturn_SuccessIfCompleted(rec) ==
  [rec EXCEPT !.pc = "done",
              !.bret = [returned |-> TRUE, success |-> rec.completedCount > 0,
                        results |-> rec.results,
                        completedCount |-> rec.completedCount,
                        failedCount |-> rec.failedCount]]

\* return { success: failedCount === 0, results, completedCount, failedCount }
BatchReturn(rec) ==
  [rec EXCEPT !.pc = "done",
              !.bret = [returned |-> TRUE, success |-> rec.failedCount = 0,
                        results |-> rec.results,
                        completedCount |-> rec.completedCount,
                        failedCount |-> rec.failedCount]]

\* faulty variant: the loop takes the entries from the end of the array
BatchLoop_FromEnd(mgr, rec, i) ==
  IF i > Len(rec.ops) THEN BatchReturn(rec)
  ELSE IF rec.ops[Len(rec.ops) + 1 - i].null THEN [rec EXCEPT !.pc = "raised", !.idx = i]
  ELSE After([rec EXCEPT !.idx = i],
             ExecuteSync(mgr, ItemReq(rec.ops[Len(rec.ops) + 1 - i])))

\* the head of the for loop of batch at entry i, up to the await
BatchLoop(mgr, rec, i) ==
  IF i > Len(rec.ops) THEN BatchReturn(rec)
  ELSE IF rec.ops[i].null THEN [rec EXCEPT !.pc = "raised", !.idx = i]
  ELSE After([rec EXCEPT !.idx = i], ExecuteSync(mgr, ItemReq(rec.ops[i])))

\* the discord_batch handler passes stopOnError ?? true
ToolStopArg(arg) == IF arg \in {"omitted", "null"} THEN "true" ELSE arg

\* faulty variant: an omitted stopOnError means false
StopOnError_DefaultFalse(arg) == arg = "true"

\* faulty variant: the loop stops at a failure whatever stopOnError is
StopOnError_Always(arg) == TRUE

\* const { operations, stopOnError = true } = params, then "if (stopOnError)"
StopOnError(arg) == IF arg = "omitted" THEN TRUE ELSE arg = "true"

\* batch(params), up to its first await
Batch(c, b) ==
  /\ calls[c].pc = "idle"
  /\ LET arg == IF b.viaTool THEN ToolStopArg(b.stopOnError) ELSE b.stopOnError
     IN calls' = [calls EXCEPT ![c] =
          BatchLoop(manager,
                    [Idle EXCEPT !.kind = "batch", !.ops = b.operations,
                                 !.stopArg = b.stopOnError, !.viaTool = b.viaTool,
                                 !.stopOnError = StopOnError(arg)],
                    1)]
  /\ UNCHANGED <<manager, pure>>

\* batch after "await this.execute(...)": the rest of the loop body and the
\* next loop head
BatchResume(c) ==
  /\ calls[c].kind = "batch" /\ calls[c].pc = "settled"
  /\ LET result == calls[c].cur
         pushed == [calls[c] EXCEPT
                      !.results = Append(@, result),
                      !.completedCount = IF result.success THEN @ + 1 ELSE @,
                      !.failedCount = IF result.success THEN @ ELSE @ + 1]
     IN calls' = [calls EXCEPT ![c] =
          IF ~result.success /\ pushed.stopOnError
          THEN BatchReturn(pushed)
          ELSE BatchLoop(manager, pushed, calls[c].idx + 1)]
  /\ UNCHANGED <<manager, pure>>

\* the caller takes the outcome; the executor is ready for the next call
Release(c) ==
  /\ calls[c].pc \in {"done", "raised"}
  /\ calls' = [calls EXCEPT ![c] = Idle]
  /\ UNCHANGED <<manager, pure>>

Next ==
  \E c \in Calls :
    \/ \E r \in ExecRequests : Execute(c, r)
    \/ \E q \in QueryRequests : Query(c, q)
    \/ \E b \in BatchRequests : Batch(c, b)
    \/ \E data \in Payloads : Returns(c, data)
    \/ \E thrown \in Throwables : Raises(c, thrown)
    \/ ExecuteResume(c)
    \/ QueryResume(c)
    \/ BatchResume(c)
    \/ Release(c)

Spec == Init /\ [][Next]_vars

\* ------------------------------------------------------------------------
\* The pure functions on their own
\* ------------------------------------------------------------------------
MaxKeys == 2
MaxOptionKeys == 3

\* keys of the mappings given to normalizeParams: the alias keys, the
\* converted keys, one other key and one name of Object.prototype
NormalizeKeys ==
  {"limit", "count", "content", "text", "position", "volume", "color",
   "constructor"}
\* keys of the mappings given to extractParamValues: sub-keys of the options
\* slot, declared keys and one key that is neither
PositionKeys == {"topic", "nsfw", "categoryId", "guildId", "unrelated"}
PureValues == {Num(5), Str("5"), Bool(FALSE)}

\* the objects with at most n of the keys, each at most once
RECURSIVE ObjectsUpTo(_, _)
ObjectsUpTo(keys, n) ==
  IF n = 0 THEN {<<>>}
  ELSE LET shorter == ObjectsUpTo(keys, n - 1)
       IN shorter \cup
          {Append(o, <<k, v>>) : o \in {t \in shorter : Len(t) = n - 1},
                                 k \in keys, v \in PureValues}

NormalizeParams ==
  {o \in ObjectsUpTo(NormalizeKeys, MaxKeys) : Cardinality(KeySet(o)) = Len(o)}
PositionParams ==
  {o \in ObjectsUpTo(PositionKeys, MaxOptionKeys) : Cardinality(KeySet(o)) = Len(o)}

\* the methods positioned with the sub-keys of the options slot
PositionedMethods == {"createForumChannel", "editChannelAdvanced"}

\* the mappings of at most n of the entries, each key at most once
RECURSIVE MappingsUpTo(_, _)
MappingsUpTo(entries, n) ==
  IF n = 0 THEN {<<>>}
  ELSE LET shorter == MappingsUpTo(entries, n - 1)
       IN shorter \cup
          {Append(o, e) : o \in {t \in shorter : Len(t) = n - 1},
                          e \in entries}

\* mappings for any other method: over its first and its last declared key
\* and one key that is not declared
DeclaredParams(methodName) ==
  LET order == Get(parameterOrders, methodName)
      keys == {order[i] : i \in {1, Len(order)} \cap DOMAIN order} \cup {"unrelated"}
  IN {o \in MappingsUpTo(keys \X PureValues, MaxKeys) :
        Cardinality(KeySet(o)) = Len(o)}

PositionParamsFor(methodName) ==
  IF methodName \in PositionedMethods THEN PositionParams
  ELSE DeclaredParams(methodName)

InitPure ==
  /\ manager = KeySet(parameterOrders)
  /\ calls = [c \in Calls |-> Idle]
  /\ pure = NoPure

\* normalizeParams(p), for a mapping p
Normalize ==
  /\ pure.stage = 0
  /\ \E p \in NormalizeParams :
       pure' = [NoPure EXCEPT !.fn = "normalizeParams", !.stage = 1, !.arg = p,
                              !.out = normalizeParams(p)]
  /\ UNCHANGED <<manager, calls>>

\* normalizeParams applied to what normalizeParams returned
NormalizeAgain ==
  /\ pure.fn = "normalizeParams" /\ pure.stage = 1
  /\ pure' = [pure EXCEPT !.stage = 2, !.again = normalizeParams(pure.out)]
  /\ UNCHANGED <<manager, calls>>

\* extractParamValues(methodName, p), for a method name and a mapping p
Position ==
  /\ pure.stage = 0
  /\ \E methodName \in KeySet(parameterOrders) :
     \E p \in PositionParamsFor(methodName) :
       /\ ~extractParamValues(methodName, p).throws
       /\ pure' = [NoPure EXCEPT !.fn = "extractParamValues", !.stage = 1,
                                  !.name = methodName, !.arg = p,
                                  !.args = extractParamValues(methodName, p).args,
                                  !.fallback = extractParamValues(methodName, p).fallback]
  /\ UNCHANGED <<manager, calls>>

\* entries of the mappings given to resolveAction for a pair: the source
\* keys of its rename table, the discriminator type, a _method key, a name of
\* Object.prototype and one other key
ResolveEntries(operation, action) ==
  LET paramMap == Get(Get(OPERATION_MAPPINGS, operation).actions, action).paramMap
  IN {<<paramMap[i][1], Str("5")>> : i \in 1..Len(paramMap)}
     \cup {<<"type", Str("voice")>>, <<"type", Str("constructor")>>,
           <<"type", Num(5)>>, <<"_method", Str("destroy")>>,
           <<"constructor", Str("5")>>, <<"other", Str("5")>>}

ResolveParams(operation, action) ==
  {o \in MappingsUpTo(ResolveEntries(operation, action), MaxKeys) :
     Cardinality(KeySet(o)) = Len(o)}

\* resolveAction(operation, action, p), for a registered pair and a mapping p
Resolve ==
  /\ pure.stage = 0
  /\ \E pair \in RegisteredPairs : \E p \in ResolveParams(pair[1], pair[2]) :
       LET resolved == resolveAction(pair[1], pair[2], p) IN
       /\ ~resolved.throws
       /\ pure' = [NoPure EXCEPT !.fn = "resolveAction", !.stage = 1,
                                  !.name = pair[1], !.action = pair[2], !.arg = p,
                                  !.found = resolved.found,
                                  !.method = resolved.method,
                                  !.out = resolved.params,
                                  !.left = ParamsAfterResolveAction(pair[1], pair[2], p)]
  /\ UNCHANGED <<manager, calls>>

\* filters and limits given to query: filters with a limit key, a count key,
\* both in either order, or neither
MergeEntries ==
  {<<"limit", Num(3)>>, <<"count", Num(7)>>, <<"count", Str("7")>>,
   <<"channelId", Str("123")>>}
MergeFilters ==
  {o \in MappingsUpTo(MergeEntries, MaxKeys) : Cardinality(KeySet(o)) = Len(o)}
MergeLimits == {Num(5), Num(0)}

\* the filters of query(resource, filters, limit) after the merge of the
\* limit and normalizeParams
Merge ==
  /\ pure.stage = 0
  /\ \E filters \in MergeFilters : \E limit \in MergeLimits :
       pure' = [NoPure EXCEPT !.fn = "query", !.stage = 1, !.arg = filters,
                              !.limit = limit,
                              !.out = normalizedFilters(
                                        QueryReq("messages", Obj(filters), limit))]
  /\ UNCHANGED <<manager, calls>>

\* entries of the filters given to resolveQuery: the source key of the rename
\* tables, a _method key, a name of Object.prototype and one other key
ResolveQueryEntries ==
  {<<"limit", Num(5)>>, <<"_method", Str("destroy")>>, <<"constructor", Str("5")>>,
   <<"channelId", Str("123")>>}
ResolveQueryFilters ==
  {o \in MappingsUpTo(ResolveQueryEntries, MaxKeys) : Cardinality(KeySet(o)) = Len(o)}

\* resolveQuery(resource, filters), for a registered resource
ResolveQuery ==
  /\ pure.stage = 0
  /\ \E resource \in KeySet(QUERY_MAPPINGS) : \E filters \in ResolveQueryFilters :
       LET resolved == resolveQuery(resource, filters) IN
       pure' = [NoPure EXCEPT !.fn = "resolveQuery", !.stage = 1,
                              !.name = resource, !.arg = filters,
                              !.found = resolved.found,
                              !.method = resolved.method,
                              !.out = resolved.params,
                              !.left = FiltersAfterResolveQuery(resource, filters)]
  /\ UNCHANGED <<manager, calls>>

\* the discord_help handler for an operation: getOperationHelp(operation)
Help ==
  /\ pure.stage = 0
  /\ \E operation \in KeySet(OPERATION_HELP) \cup KeySet(OPERATION_MAPPINGS)
                        \cup {"bogus"} :
       pure' = [NoPure EXCEPT !.fn = "getOperationHelp", !.stage = 1,
                              !.name = operation,
                              !.args = [i \in 1..Len(getOperationHelp(operation)) |->
                                          Str(getOperationHelp(operation)[i])]]
  /\ UNCHANGED <<manager, calls>>

NextPure ==
  \/ Normalize \/ NormalizeAgain \/ Position \/ Resolve \/ Merge
  \/ ResolveQuery \/ Help

SpecPure == InitPure /\ [][NextPure]_vars

\* ------------------------------------------------------------------------
\* Two callers of one executor
\* ------------------------------------------------------------------------
MaxConcBatch == 2

ConcCalls == {"c1", "c2"}

ConcExecRequests ==
  {Req("message", "send", Obj(<< <<"channelId", Str("123")>>, <<"content", Str("hi")>> >>)),
   Req("message", "delete", Obj(<< <<"channelId", Str("456")>>, <<"_method", Str("destroy")>> >>)),
   Req("channel", "create", Obj(<< <<"name", Str("n")>>, <<"type", Str("voice")>> >>)),
   Req("message", "bogus", Obj(<<>>))}

ConcQueryRequests ==
  {QueryReq("messages", Obj(<< <<"channelId", Str("123")>> >>), Num(5))}

ConcBatchItems ==
  {Item("message", "send", Obj(<< <<"channelId", Str("456")>>, <<"text", Str("hi")>> >>)),
   Item("message", "bogus", Obj(<<>>))}

ConcBatchRequests ==
  [operations : SeqsUpTo(ConcBatchItems, MaxConcBatch) \ {<<>>},
   stopOnError : {"omitted", "false"}, viaTool : {FALSE}]

InitConc ==
  /\ manager = KeySet(parameterOrders) \cup {"destroy"}
  /\ calls = [c \in ConcCalls |-> Idle]
  /\ pure = NoPure

NextConc ==
  \E c \in ConcCalls :
    \/ \E r \in ConcExecRequests : Execute(c, r)
    \/ \E q \in ConcQueryRequests : Query(c, q)
    \/ \E b \in ConcBatchRequests : Batch(c, b)
    \/ \E data \in Payloads : Returns(c, data)
    \/ \E thrown \in Throwables : Raises(c, thrown)
    \/ ExecuteResume(c)
    \/ QueryResume(c)
    \/ BatchResume(c)
    \/ Release(c)

SpecConc == InitConc /\ [][NextConc]_vars

\* ------------------------------------------------------------------------
\* Properties
\* ------------------------------------------------------------------------
Registered(operation, action) ==
  /\ Has(OPERATION_MAPPINGS, operation)
  /\ Has(Get(OPERATION_MAPPINGS, operation).actions, action)

ValidationKinds == {"InvalidOperation", "InvalidAction", "InvalidResource"}

\* the call rec was made with a request that fails validation
InvalidCall(rec) ==
  \/ rec.kind = "execute" /\ ~Registered(rec.req.operation, rec.req.action)
  \/ rec.kind = "query" /\ ~Has(QUERY_MAPPINGS, rec.qreq.resource)

\* C1: execute with an unregistered category or an unregistered action of a
\* registered category, and query with an unregistered resource, end in a
\* failure result raised by validation itself and invoke no underlying
\* operation; in a batch no entry that fails validation is ever invoked.
C1_InvalidShortCircuits ==
  \A c \in Calls :
    LET rec == calls[c] IN
    /\ InvalidCall(rec) =>
         /\ rec.log = <<>>
         /\ rec.pc \in {"settled", "done"}
         /\ ~rec.cur.success
         /\ rec.cur.error.kind \in ValidationKinds
         /\ rec.pc = "done" => rec.ret = rec.cur
    /\ rec.kind = "batch" =>
         /\ \A j \in 1..Len(rec.log) :
              Registered(rec.ops[rec.log[j].idx].operation, rec.ops[rec.log[j].idx].action)
         /\ \A i \in 1..Len(rec.results) :
              ~Registered(rec.ops[i].operation, rec.ops[i].action) =>
                ~rec.results[i].success /\ rec.results[i].error.kind \in ValidationKinds

C1_Witness ==
  \E c \in Calls :
    /\ calls[c].kind = "execute" /\ calls[c].pc = "done"
    /\ calls[c].req.operation = "message" /\ calls[c].req.action = "bogus"
    /\ ~calls[c].ret.success /\ calls[c].log = <<>>

\* C2: execute, query and batch never raise: every call ends in a returned
\* result value.
C2_NeverRaises == \A c \in Calls : calls[c].pc # "raised"

FirstFailure(results, k) ==
  /\ k \in 1..Len(results)
  /\ ~results[k].success
  /\ \A j \in 1..(k - 1) : results[j].success

\* C3: batch with stopOnError true or omitted: once request k is the first
\* failed request, batch has returned k results, completedCount = k-1,
\* failedCount = 1, success = false, and no request after k was invoked.
C3_StopOnFirstError ==
  \A c \in Calls :
    LET rec == calls[c] IN
    (rec.kind = "batch" /\ rec.stopArg \in {"true", "omitted"}) =>
      \A k \in 1..Len(rec.results) :
        FirstFailure(rec.results, k) =>
          /\ rec.pc = "done"
          /\ rec.bret.returned
          /\ Len(rec.bret.results) = k
          /\ rec.bret.results = rec.results
          /\ rec.bret.completedCount = k - 1
          /\ rec.bret.failedCount = 1
          /\ rec.bret.success = FALSE
          /\ \A j \in 1..Len(rec.log) : rec.log[j].idx <= k

C3_Witness ==
  \E c \in Calls :
    LET rec == calls[c] IN
    /\ rec.kind = "batch" /\ rec.stopArg = "omitted" /\ ~rec.viaTool
    /\ rec.pc = "done" /\ Len(rec.ops) = 3
    /\ FirstFailure(rec.results, 2)
    /\ Len(rec.log) = 2 /\ rec.log[2].status = "raised"
    /\ Registered(rec.ops[3].operation, rec.ops[3].action)

Count(results, flag) == Cardinality({i \in 1..Len(results) : results[i].success = flag})

C5_SequentialInOrder ==
  \A c \in Calls :
    LET rec == calls[c] IN
    rec.kind = "batch" =>
      /\ \A j \in 1..Len(rec.log) :
           /\ j < Len(rec.log) => rec.log[j].idx < rec.log[j + 1].idx
           /\ rec.log[j].status = "pending" =>
                j = Len(rec.log) /\ rec.pc = "await" /\ rec.log[j].idx = Len(rec.results) + 1
           /\ rec.log[j].idx <= Len(rec.results) + 1
      /\ Cardinality({j \in 1..Len(rec.log) : rec.log[j].status = "pending"}) <= 1
      /\ \A i \in 1..Len(rec.results) :
           LET o == ExecuteSync(manager, ItemReq(rec.ops[i])) IN
           IF o.tag = "invoke"
           THEN \E j \in 1..Len(rec.log) :
                  /\ rec.log[j].idx = i
                  /\ rec.log[j].method = o.method /\ rec.log[j].args = o.args
                  /\ rec.log[j].status = (IF rec.results[i].success THEN "returned" ELSE "raised")
           ELSE /\ rec.results[i] = o.result
                /\ \A j \in 1..Len(rec.log) : rec.log[j].idx # i

C5_Witness ==
  \E c \in Calls :
    LET rec == calls[c] IN
    /\ rec.kind = "batch" /\ rec.pc = "await"
    /\ Len(rec.results) = 2 /\ Len(rec.log) = 3
    /\ rec.log[3].status = "pending" /\ rec.log[3].idx = 3
    /\ rec.ops[1] # rec.ops[3]

\* C6: in every state of a batch completedCount + failedCount = number of
\* results <= number of requests; the returned success flag is true exactly
\* when failedCount = 0; when stopping on error at most one result failed
\* and it is the last one.
C6_BatchCounts ==
  \A c \in Calls :
    LET rec == calls[c] IN
    rec.kind = "batch" =>
      /\ rec.completedCount + rec.failedCount = Len(rec.results)
      /\ Len(rec.results) <= Len(rec.ops)
      /\ rec.completedCount = Count(rec.results, TRUE)
      /\ rec.pc = "done" =>
           /\ rec.bret.returned
           /\ rec.bret.success = (rec.bret.failedCount = 0)
           /\ rec.bret.completedCount + rec.bret.failedCount = Len(rec.bret.results)
           /\ rec.bret.results = rec.results
           /\ rec.bret.failedCount = rec.failedCount
      /\ rec.stopOnError =>
           /\ rec.failedCount <= 1
           /\ \A i \in 1..Len(rec.results) : ~rec.results[i].success => i = Len(rec.results)

C6_Witness ==
  \E c \in Calls :
    LET rec == calls[c] IN
    /\ rec.kind = "batch" /\ rec.pc = "done" /\ rec.ops = <<>>
    /\ rec.bret.success /\ rec.bret.results = <<>>

\* C7: discord_batch is atomic: when a batch returns with a failed
\* operation, no operation of that batch has taken effect.
C7_BatchAtomic ==
  \A c \in Calls :
    LET rec == calls[c] IN
    (rec.kind = "batch" /\ rec.pc = "done" /\ rec.bret.failedCount > 0) =>
      \A j \in 1..Len(rec.log) : rec.log[j].status # "returned"

\* the request is message.send with exactly channelId and one body key
IsSend(req) ==
  /\ req.operation = "message" /\ req.action = "send"
  /\ req.params.t = "obj" /\ Len(req.params.m) = 2
  /\ Has(req.params.m, "channelId")
  /\ \E k \in BodyKeys : Has(req.params.m, k)

BodyOf(req) == LET k == CHOOSE k \in BodyKeys : Has(req.params.m, k) IN Get(req.params.m, k)

\* C8: execute of message.send with {channelId: c, content | text | message: m}
\* invokes sendMessage exactly once, with the arguments (c, m).
C8_SendArguments ==
  \A c \in Calls :
    LET rec == calls[c] IN
    (rec.kind = "execute" /\ IsSend(rec.req)) =>
      /\ rec.pc \in {"await", "settled", "done"}
      /\ Len(rec.log) = 1
      /\ rec.log[1].method = "sendMessage"
      /\ rec.log[1].args = <<Get(rec.req.params.m, "channelId"), BodyOf(rec.req)>>

C8_Witness ==
  \E c \in Calls :
    LET rec == calls[c] IN
    /\ rec.kind = "execute" /\ IsSend(rec.req) /\ Has(rec.req.params.m, "text")
    /\ rec.pc = "done" /\ rec.ret.success
    /\ rec.log[1].args = <<Str("456"), Str("hi")>>

IsEdit(req) ==
  /\ req.action = "edit" /\ req.params.t = "obj"
  /\ \/ req.operation = "message" /\ Keys(req.params.m) = <<"channelId", "messageId", "content">>
     \/ req.operation = "dm" /\ Keys(req.params.m) = <<"userId", "messageId", "content">>

\* C9: execute of message.edit with {channelId: c, messageId: i, content: m}
\* invokes editMessage with (c, i, m), and dm.edit with {userId: u,
\* messageId: i, content: m} invokes editPrivateMessage with (u, i, m).
C9_EditArguments ==
  \A c \in Calls :
    LET rec == calls[c] IN
    (rec.kind = "execute" /\ IsEdit(rec.req)) =>
      /\ Len(rec.log) = 1
      /\ rec.log[1].method =
           (IF rec.req.operation = "message" THEN "editMessage" ELSE "editPrivateMessage")
      /\ rec.log[1].args = Values(rec.req.params.m)

LimitSlot(method) ==
  CASE method \in {"readMessages", "readPrivateMessages"} -> 2
    [] method \in {"getMembers", "getMessageHistory"} -> 2
    [] OTHER -> 0

\* C10: query with a numeric limit n passes the text of n as the count /
\* limit argument of readMessages, readPrivateMessages, getMembers and
\* getMessageHistory.
C10_QueryLimitDelivered ==
  \A c \in Calls :
    LET rec == calls[c] IN
    (rec.kind = "query" /\ rec.qreq.limit.t = "num"
       /\ rec.qreq.resource \in {"messages", "dm_messages", "members", "message_history"}) =>
      /\ Len(rec.log) = 1
      /\ LimitSlot(rec.log[1].method) = 2
      /\ rec.log[1].args[2] = Str(ToString(rec.qreq.limit.n))

IsSelectMenu(req) ==
  /\ req.operation = "interactive" /\ req.action = "send_select_menu"
  /\ req.params.t = "obj"
  /\ Keys(req.params.m) = <<"channelId", "content", "customId", "options">>

\* C11: execute of interactive.send_select_menu with {channelId, content,
\* customId, options: L} invokes sendSelectMenu with L as its last argument.
C11_SelectMenuOptions ==
  \A c \in Calls :
    LET rec == calls[c] IN
    (rec.kind = "execute" /\ IsSelectMenu(rec.req)) =>
      /\ Len(rec.log) = 1
      /\ rec.log[1].method = "sendSelectMenu"
      /\ rec.log[1].args[Len(rec.log[1].args)] = Get(rec.req.params.m, "options")

ActionConfig(operation, action) == Get(Get(OPERATION_MAPPINGS, operation).actions, action)

\* C12: for a registered action without a dynamic-resolution function and
\* any parameters (a _method key included), resolveAction returns the
\* declared operation name and execute invokes that operation and no other.
C12_StaticMethod ==
  \A c \in Calls :
    LET rec == calls[c] IN
    (rec.kind = "execute" /\ Registered(rec.req.operation, rec.req.action)
       /\ ~ActionConfig(rec.req.operation, rec.req.action).transform) =>
      /\ resolveAction(rec.req.operation, rec.req.action,
                       normalizeParams(ParamsOrEmpty(rec.req.params))).method
           = Str(ActionConfig(rec.req.operation, rec.req.action).method)
      /\ \A j \in 1..Len(rec.log) :
           rec.log[j].method = ActionConfig(rec.req.operation, rec.req.action).method

\* C13: every (operation, action) pair of the README table "Available
\* Operations" is accepted by execute, which returns neither an "Invalid
\* operation" nor an "Invalid action" error for it.
C13_ReadmePairsAccepted ==
  \A c \in Calls :
    LET rec == calls[c] IN
    (rec.kind = "execute" /\ <<rec.req.operation, rec.req.action>> \in ReadmePairs
       /\ rec.pc \in {"settled", "done"}) =>
      rec.cur.error.kind \notin {"InvalidOperation", "InvalidAction"}

\* the list names every element of the set once and nothing else
ListsExactly(list, set) ==
  {list[i] : i \in 1..Len(list)} = set /\ Len(list) = Cardinality(set)

\* the validation error a request must get, if any
ExpectedValidation(req) ==
  IF ~Has(OPERATION_MAPPINGS, req.operation)
  THEN [kind |-> "InvalidOperation", names |-> KeySet(OPERATION_MAPPINGS)]
  ELSE IF ~Has(Get(OPERATION_MAPPINGS, req.operation).actions, req.action)
  THEN [kind |-> "InvalidAction",
        names |-> KeySet(Get(OPERATION_MAPPINGS, req.operation).actions)]
  ELSE [kind |-> "none", names |-> {}]

MatchesValidation(result, expected) ==
  expected.kind # "none" =>
    /\ ~result.success
    /\ result.error.kind = expected.kind
    /\ ListsExactly(result.error.valid, expected.names)

\* C14: the error for an unregistered category lists exactly the registered
\* categories, the error for an unregistered action of a registered category
\* exactly that category's actions, and the error of query for an
\* unregistered resource exactly the registered resources.
C14_ErrorListsValidNames ==
  \A c \in Calls :
    LET rec == calls[c] IN
    /\ (rec.kind = "execute" /\ rec.pc \in {"settled", "done"}) =>
         MatchesValidation(rec.cur, ExpectedValidation(rec.req))
    /\ (rec.kind = "query" /\ rec.pc \in {"settled", "done"}
          /\ ~Has(QUERY_MAPPINGS, rec.qreq.resource)) =>
         /\ ~rec.cur.success
         /\ rec.cur.error.kind = "InvalidResource"
         /\ ListsExactly(rec.cur.error.valid, KeySet(QUERY_MAPPINGS))
    /\ rec.kind = "batch" =>
         \A i \in 1..Len(rec.results) :
           MatchesValidation(rec.results[i], ExpectedValidation(ItemReq(rec.ops[i])))

C14_Witness ==
  \E c \in Calls :
    LET rec == calls[c] IN
    /\ rec.kind = "execute" /\ rec.pc = "done"
    /\ rec.req.operation = "category" /\ rec.req.action = "edit"
    /\ rec.ret.error.kind = "InvalidAction"
    /\ rec.ret.error.valid =
         <<"create", "delete", "find", "set_position", "set_private", "list_channels">>

\* success with data and no error, or failure with error and no data
WellFormed(result) ==
  IF result.success
  THEN result.fields = {"success", "data"} /\ result.error = NoError
  ELSE result.fields = {"success", "error"} /\ result.error # NoError
       /\ result.data = Undef

\* C15: every result of execute or query and every entry of a batch's
\* results is success=true with data and no error, or success=false with an
\* error and no data.
C15_ResultShape ==
  \A c \in Calls :
    LET rec == calls[c] IN
    /\ rec.pc = "settled" => WellFormed(rec.cur)
    /\ (rec.kind \in {"execute", "query"} /\ rec.pc = "done") => WellFormed(rec.ret)
    /\ \A i \in 1..Len(rec.results) : WellFormed(rec.results[i])
    /\ \A i \in 1..Len(rec.bret.results) : WellFormed(rec.bret.results[i])

C15_Witness ==
  \E c \in Calls :
    LET rec == calls[c] IN
    /\ rec.kind = "batch" /\ rec.pc = "done" /\ Len(rec.bret.results) = 2
    /\ rec.bret.results[1].success /\ rec.bret.results[1].data = Str("ok")
    /\ ~rec.bret.results[2].success /\ rec.bret.results[2].error.kind = "Underlying"

\* what execute or query resolved the request to, when validation and
\* resolution succeed
Resolution(rec) ==
  IF rec.kind = "execute"
  THEN IF Registered(rec.req.operation, rec.req.action)
       THEN resolveAction(rec.req.operation, rec.req.action,
                          normalizeParams(ParamsOrEmpty(rec.req.params)))
       ELSE [found |-> FALSE, throws |-> FALSE, method |-> Undef, params |-> <<>>]
  ELSE IF Includes(getValidQueryResources, rec.qreq.resource)
       THEN [found |-> TRUE, throws |-> FALSE,
             method |-> resolveQuery(rec.qreq.resource, <<>>).method, params |-> <<>>]
       ELSE [found |-> FALSE, throws |-> FALSE, method |-> Undef, params |-> <<>>]

\* typeof automationManager[methodName] === 'function'
ExistsOnCollaborator(mgr, method) ==
  HasPrimitive(method) /\ ManagerHas(mgr, KeyString(method))

\* C16: an execute or query call invokes at most one underlying operation,
\* exactly one when validation and resolution succeed and the resolved
\* operation exists on the collaborator; an invocation that fails is the
\* only one of its call and gives one failed result.
C16_OneInvocation ==
  \A c \in Calls :
    LET rec == calls[c] IN
    (rec.kind \in {"execute", "query"}) =>
      /\ Len(rec.log) <= 1
      /\ (rec.pc \in {"await", "settled", "done"}
            /\ Resolution(rec).found /\ ~Resolution(rec).throws
            /\ ExistsOnCollaborator(manager, Resolution(rec).method))
           => Len(rec.log) = 1
      /\ \A j \in 1..Len(rec.log) :
           rec.log[j].status = "raised" =>
             /\ Len(rec.log) = 1
             /\ rec.pc \in {"settled", "done"}
             /\ ~rec.cur.success /\ rec.cur.error.kind = "Underlying"

\* the name the alias table of the specification gives a key: limit is
\* count, content and text are message, every other key is itself
CanonicalName(k) ==
  CASE k = "limit" -> "count"
    [] k \in {"content", "text"} -> "message"
    [] OTHER -> k

Normalized == pure.fn = "normalizeParams" /\ pure.stage >= 1

\* C17: the keys of normalize(p) are the keys of p with limit renamed to
\* count and content and text renamed to message, every other key under its
\* own name; no output has a key limit, content or text; a number under
\* limit comes out as its text under count.
C17_NormalizeRenames ==
  Normalized =>
    /\ KeySet(pure.out) = {CanonicalName(k) : k \in KeySet(pure.arg)}
    /\ KeySet(pure.out) \cap {"limit", "content", "text"} = {}
    /\ \A i \in 1..Len(pure.arg) :
         (pure.arg[i][1] = "limit" /\ pure.arg[i][2].t = "num"
            /\ ~Has(pure.arg, "count")) =>
           Get(pure.out, "count") = Str(ToString(pure.arg[i][2].n))

\* the canonical numeric keys of the specification
NumericKeys == {"count", "position", "volume"}

\* the value the specification gives an entry: the text of a number under a
\* key whose post-alias name is a canonical numeric key, the value itself
\* otherwise
Coerced(k, v) ==
  IF CanonicalName(k) \in NumericKeys /\ v.t = "num"
  THEN Str(ToString(v.n))
  ELSE v

\* the last entry of p under a key with the post-alias name of entry i
LastOfName(p, i) ==
  \A j \in (i + 1)..Len(p) : CanonicalName(p[j][1]) # CanonicalName(p[i][1])

\* C18: normalize replaces a value by its text exactly when the post-alias
\* name of its key is count, position or volume and the value is a number;
\* every other value comes out as it went in.
C18_CoercionIff ==
  Normalized =>
    /\ (Cardinality({CanonicalName(k) : k \in KeySet(pure.arg)}) = Len(pure.arg)) =>
         /\ Len(pure.out) = Len(pure.arg)
         /\ \A i \in 1..Len(pure.arg) :
              pure.out[i][2] = Coerced(pure.arg[i][1], pure.arg[i][2])
    /\ \A i \in 1..Len(pure.arg) :
         (LastOfName(pure.arg, i) /\ Has(pure.out, CanonicalName(pure.arg[i][1]))) =>
           Get(pure.out, CanonicalName(pure.arg[i][1]))
             = Coerced(pure.arg[i][1], pure.arg[i][2])

C18_Witness ==
  /\ Normalized
  /\ pure.arg = << <<"position", Num(5)>>, <<"color", Num(5)>> >>
  /\ pure.out = << <<"position", Str("5")>>, <<"color", Num(5)>> >>

\* C19: normalize(normalize(p)) = normalize(p) for every parameter mapping
\* p, alias keys and numbers under converted keys included.
C19_Idempotent ==
  (pure.fn = "normalizeParams" /\ pure.stage = 2) => pure.again = pure.out

C19_Witness ==
  /\ pure.fn = "normalizeParams" /\ pure.stage = 2
  /\ pure.arg = << <<"limit", Num(5)>>, <<"text", Str("5")>> >>
  /\ pure.out = << <<"count", Str("5")>>, <<"message", Str("5")>> >>
  /\ pure.again = pure.out

\* the optional sub-keys of the specification
SubKeys ==
  {"topic", "slowmode", "userLimit", "bitrate", "isPrivate", "allowedRoles",
   "allowedMembers", "syncToCategory", "applyToChannels", "categoryId",
   "defaultReactionEmoji", "nsfw", "rateLimitPerUser"}

\* a positioned call of an operation whose declared order has an options slot
PositionedWithOptions ==
  /\ pure.fn = "extractParamValues" /\ pure.stage = 1
  /\ Includes(Get(parameterOrders, pure.name), "options")

Resolved == pure.fn = "resolveAction" /\ pure.stage = 1

\* the rename table of a registered pair
RenameTable(operation, action) == ActionConfig(operation, action).paramMap

\* C21: for a registered pair and any parameter mapping, resolveAction
\* returns an operation name that is not null, and a mapping that has the
\* target key of every rename-table entry whose source key is in the input
\* and, under its own name, every input key that is not a source key.
C21_ResolveRenames ==
  Resolved =>
    LET renames == RenameTable(pure.name, pure.action)
        sources == {renames[i][1] : i \in 1..Len(renames)}
    IN /\ pure.found /\ pure.method.t \notin {"undef", "null"}
       /\ \A i \in 1..Len(renames) :
            Has(pure.arg, renames[i][1]) => Has(pure.out, renames[i][2])
       /\ \A k \in KeySet(pure.arg) \ sources : Has(pure.out, k)

\* the synchronous part of the i-th request of a call, run on its own
SoloSync(rec, i) ==
  CASE rec.kind = "query" -> QuerySync(manager, rec.qreq)
    [] rec.kind = "execute" -> ExecuteSync(manager, rec.req)
    [] OTHER -> ExecuteSync(manager, ItemReq(rec.ops[i]))

\* how the invocation for the i-th request of a call ended
StatusOf(rec, i) ==
  IF \E j \in 1..Len(rec.log) : rec.log[j].idx = i
  THEN rec.log[CHOOSE j \in 1..Len(rec.log) : rec.log[j].idx = i].status
  ELSE "none"

\* the result is the one the request gives on its own, for the way its
\* underlying operation ended
SoloResult(result, o, status) ==
  IF o.tag = "result" THEN result = o.result
  ELSE \/ status = "returned" /\ \E data \in Payloads : result = Success(data)
       \/ status = "raised" /\ \E thrown \in Throwables :
            result = Failure(Err("Underlying", o.method, <<>>, CaughtMessage(thrown)))

\* C22: with several calls in progress at once, every call invokes the
\* operations and arguments its own request gives when run alone, and its
\* results are the ones its own request gives for the way its own
\* underlying operations ended.
C22_CallsIsolated ==
  \A c \in DOMAIN calls :
    LET rec == calls[c] IN
    rec.kind # "idle" =>
      /\ \A j \in 1..Len(rec.log) :
           LET o == SoloSync(rec, rec.log[j].idx)
           IN o.tag = "invoke" /\ rec.log[j].method = o.method
              /\ rec.log[j].args = o.args
      /\ (rec.kind \in {"execute", "query"} /\ rec.pc \in {"settled", "done"}) =>
           /\ SoloResult(rec.cur, SoloSync(rec, 1), StatusOf(rec, 1))
           /\ rec.pc = "done" => rec.ret = rec.cur
      /\ rec.kind = "batch" =>
           /\ \A i \in 1..Len(rec.results) :
                SoloResult(rec.results[i], SoloSync(rec, i), StatusOf(rec, i))
           /\ rec.pc = "done" => rec.bret.results = rec.results

C22_Witness ==
  /\ DOMAIN calls = ConcCalls
  /\ calls["c1"].kind = "execute" /\ calls["c1"].pc = "await"
  /\ calls["c1"].log[1].args = <<Str("123"), Str("hi")>>
  /\ calls["c2"].kind = "batch" /\ calls["c2"].pc = "await"
  /\ Len(calls["c2"].results) = 1 /\ ~calls["c2"].results[1].success
  /\ Len(calls["c2"].log) = 2
  /\ calls["c2"].log[2].args = <<Str("456"), Str("hi")>>

\* a positioned call of an operation whose declared order has no options slot
PositionedPlain ==
  /\ pure.fn = "extractParamValues" /\ pure.stage = 1
  /\ ~Includes(Get(parameterOrders, pure.name), "options")

\* C23: for an operation with a declared argument order without an options
\* slot, the Positioner returns as many values as the order has keys, the
\* i-th being the input value of the i-th declared key, or the absent marker
\* when the input has no such key; values of other input keys are not in it.
C23_DeclaredOrder ==
  PositionedPlain =>
    LET order == Get(parameterOrders, pure.name)
    IN /\ ~pure.fallback
       /\ Len(pure.args) = Len(order)
       /\ \A i \in 1..Len(order) :
            pure.args[i] = IF Has(pure.arg, order[i])
                           THEN Get(pure.arg, order[i])
                           ELSE Undef

C23_Witness ==
  /\ PositionedPlain /\ pure.name = "sendMessage"
  /\ pure.arg = << <<"unrelated", Str("5")>>, <<"message", Num(5)>> >>
  /\ pure.args = <<Undef, Num(5)>>

\* the operation the type parameter selects for channel.create
SelectedByType(params) ==
  LET type == Prop(params, "type")
  IN IF type.t = "str" /\ Has(methodMap, type.s)
     THEN Get(methodMap, type.s)
     ELSE "createTextChannel"

\* C24: execute of channel.create resolves to the operation its type
\* parameter selects among the six create operations, to createTextChannel
\* when type is missing or is none of the six names, without an error, and
\* whatever _method key the caller supplies.
C24_ChannelCreate ==
  \A c \in Calls :
    LET rec == calls[c]
        params == ParamsOrEmpty(rec.req.params)
    IN (rec.kind = "execute" /\ rec.req.operation = "channel"
          /\ rec.req.action = "create") =>
         /\ rec.pc # "raised"
         /\ Len(rec.log) = 1
         /\ rec.log[1].method = SelectedByType(params)
         /\ ~rec.log[1].fallback

Merged == pure.fn = "query" /\ pure.stage = 1

\* C25: when query is given a limit n, the count key of the normalized
\* filters is the text of n, whatever the filters hold: a limit key, a count
\* key, both or neither.
C25_LimitTakesPrecedence ==
  Merged =>
    /\ Has(pure.out, "count")
    /\ Get(pure.out, "count") = Str(ToString(pure.limit.n))
    /\ ~Has(pure.out, "limit")

QueryResolved == pure.fn = "resolveQuery" /\ pure.stage = 1

\* C26: for a registered resource and any filters, a _method key included,
\* resolveQuery returns the one operation name declared for the resource,
\* and the mapping it was given has the same keys and values afterwards.
C26_QueryStaticMethod ==
  QueryResolved =>
    /\ pure.found
    /\ pure.method = Str(Get(QUERY_MAPPINGS, pure.name).method)
    /\ pure.left = pure.arg

C26_Witness ==
  /\ QueryResolved /\ pure.name = "messages"
  /\ pure.arg = << <<"_method", Str("destroy")>>, <<"limit", Num(5)>> >>
  /\ pure.method = Str("readMessages")
  /\ pure.out = << <<"_method", Str("destroy")>>, <<"count", Num(5)>> >>

Helped == pure.fn = "getOperationHelp" /\ pure.stage = 1

\* every action name of the registry or of the help table, and one of neither
ActionNames ==
  UNION {KeySet(Get(OPERATION_MAPPINGS, op).actions) : op \in KeySet(OPERATION_MAPPINGS)}
  \cup UNION {{Get(OPERATION_HELP, op)[i] : i \in 1..Len(Get(OPERATION_HELP, op))} :
              op \in KeySet(OPERATION_HELP)}
  \cup {"bogus"}

\* execute does not turn the pair down as an invalid operation or action
Accepts(operation, action) ==
  LET o == ExecuteSync(manager, Req(operation, action, Obj(<<>>)))
  IN ~(o.tag = "result"
       /\ o.result.error.kind \in {"InvalidOperation", "InvalidAction"})

\* C27: the operation enum of discord_execute is the set of registered
\* operations, the resource enum of discord_query is the set of registered
\* resources, and the actions discord_help documents for an operation are
\* exactly the actions execute accepts for it.
C27_AdvertisedIsRegistered ==
  Helped =>
    /\ {OperationEnum[i] : i \in 1..Len(OperationEnum)} = KeySet(OPERATION_MAPPINGS)
    /\ {ResourceEnum[i] : i \in 1..Len(ResourceEnum)} = KeySet(QUERY_MAPPINGS)
    /\ Has(OPERATION_HELP, pure.name) <=> Has(OPERATION_MAPPINGS, pure.name)
    /\ \A a \in ActionNames :
         (\E i \in 1..Len(pure.args) : pure.args[i] = Str(a))
           <=> Accepts(pure.name, a)

C27_Witness ==
  /\ Helped /\ pure.name = "message"
  /\ Len(pure.args) = 9 /\ pure.args[9] = Str("crosspost")
  /\ Accepts("message", "crosspost") /\ ~Accepts("message", "find")

\* C28: for a registered pair with parameters that have no _method key, and
\* for a registered resource with any filters, the operation name that
\* execute or query resolves has a declared argument order, and no
\* invocation gets its arguments from the insertion-order fallback.
C28_OrderDeclared ==
  \A c \in Calls :
    LET rec == calls[c]
        resolved == Resolution(rec)
    IN ((rec.kind = "execute" /\ Registered(rec.req.operation, rec.req.action)
           /\ ~Has(ParamsOrEmpty(rec.req.params), "_method"))
        \/ (rec.kind = "query"
              /\ Includes(getValidQueryResources, rec.qreq.resource))) =>
         /\ resolved.found /\ ~resolved.throws
         /\ HasPrimitive(resolved.method)
         /\ Has(parameterOrders, KeyString(resolved.method))
         /\ \A j \in 1..Len(rec.log) : ~rec.log[j].fallback

\* the keys a caller can hope to reach a declared key with: the declared
\* keys themselves and every key of the alias table and of a rename table
CallerKeys ==
  UNION {{Get(parameterOrders, m)[i] : i \in 1..Len(Get(parameterOrders, m))} :
         m \in KeySet(parameterOrders)}
  \cup UNION {{PARAM_ALIASES[i][1], PARAM_ALIASES[i][2]} : i \in 1..Len(PARAM_ALIASES)}
  \cup UNION {UNION {{RenameTable(pair[1], pair[2])[i][1],
                       RenameTable(pair[1], pair[2])[i][2]} :
                      i \in 1..Len(RenameTable(pair[1], pair[2]))} :
              pair \in RegisteredPairs}
  \cup UNION {UNION {{Get(QUERY_MAPPINGS, r).paramMap[i][1],
                       Get(QUERY_MAPPINGS, r).paramMap[i][2]} :
                      i \in 1..Len(Get(QUERY_MAPPINGS, r).paramMap)} :
              r \in KeySet(QUERY_MAPPINGS)}

Probe == Str("probe")

\* the synchronous part o of a call invokes the method with the probe value
\* at position i
Delivers(o, method, i) ==
  o.tag = "invoke" /\ o.method = method /\ o.args[i] = Probe

\* the positions of the declared order of a method, the options slot apart
PlainPositions(method) ==
  {i \in 1..Len(Get(parameterOrders, method)) :
     Get(parameterOrders, method)[i] # "options"}

\* C29: for a registered pair or resource and each declared key of the
\* operation it resolves to, the options slot apart, some key a caller can
\* supply puts its value at the position of that key.
C29_EveryKeyReachable ==
  /\ (Resolved /\ pure.method.t = "str" /\ Has(parameterOrders, pure.method.s)
        /\ pure.arg \in {<<>>, << <<"type", Str("voice")>> >>}) =>
       \A i \in PlainPositions(pure.method.s) :
         \E key \in CallerKeys :
           Delivers(ExecuteSync(manager,
                                Req(pure.name, pure.action,
                                    Obj(Put(pure.arg, key, Probe)))),
                    pure.method.s, i)
  /\ (QueryResolved /\ pure.arg = <<>>) =>
       \A i \in PlainPositions(pure.method.s) :
         \/ \E key \in CallerKeys :
              Delivers(QuerySync(manager,
                                 QueryReq(pure.name, Obj(<< <<key, Probe>> >>), Undef)),
                       pure.method.s, i)
         \/ Delivers(QuerySync(manager, QueryReq(pure.name, Obj(<<>>), Probe)),
                     pure.method.s, i)

\* C30: resolveAction and resolveQuery leave the mapping their caller passed
\* in with the same keys and values as before the call, a mapping with a
\* _method key included
C30_InputsUnchanged ==
  (Resolved \/ QueryResolved) => pure.left = pure.arg

====
